---- MODULE Spec2Model ----
(***************************************************************************)
(* Model of the core of Expedition33ModManager (src/src/core.rs):          *)
(* install_ue4ss, install_mod_from_zip, list_installed_mods and            *)
(* list_all_files_and_dirs, acting on a filesystem.                        *)
(*                                                                         *)
(* A path is a sequence of components.  The filesystem `fs` is a function  *)
(* from the absolute paths that exist (<<>> is the filesystem root) to a   *)
(* node [kind, data]: a directory, or a file with its bytes.  Bytes are    *)
(* abstracted to a number: k is the full content of entry k of the         *)
(* archive, Truncated is a file that was created or truncated and holds    *)
(* nothing.  Symbolic links are not modelled.                              *)
(***************************************************************************)
EXTENDS Integers, Sequences, FiniteSets, TLC

\* ---------------------------------------------------------------- bounds
MaxEntries == 2

\* ------------------------------------------------------- path components
ParentDir == ".."
RootDir == "/"
\* a directory name that is not valid Unicode (OsStr::to_str gives None)
BadName == "\\xFF"
\* what Path::display / to_string_lossy prints for it
Replacement == "\\uFFFD"

Truncated == 0

DirNode == [kind |-> "dir", data |-> 0]
FileNode(d) == [kind |-> "file", data |-> d]

\* the game's Win64 directory handed to the operations (target_dir / win64_dir)
TargetDir == <<"game">>
\* a directory path that does not exist
Nowhere == <<"nowhere">>

\* ------------------------------------------------------------ std::path
IsPrefix(p, q) == Len(p) <= Len(q) /\ SubSeq(q, 1, Len(p)) = p

\* Path::parent: the path without its last component (also when that is "..")
Parent(p) == SubSeq(p, 1, Len(p) - 1)

\* Path::join: an absolute argument replaces the base
Join(base, rel) ==
    IF rel # <<>> /\ Head(rel) = RootDir THEN Tail(rel) ELSE base \o rel

\* where the operating system finds a path: ".." steps to the parent
RECURSIVE Resolve(_)
Resolve(p) ==
    IF p = <<>> THEN <<>>
    ELSE LET r == Resolve(Parent(p))
             c == p[Len(p)]
         IN  IF c = ParentDir THEN Parent(r) ELSE Append(r, c)

\* OsStr::to_ascii_lowercase on the component names of the model
Lower(c) ==
    CASE c = "UE4SS" -> "ue4ss"
      [] c = "Ue4ss" -> "ue4ss"
      [] c = "Mods" -> "mods"
      [] OTHER -> c

\* ------------------------------------------------------------ filesystem
Exists(f, p) == p \in DOMAIN f
IsDir(f, p) == p \in DOMAIN f /\ f[p].kind = "dir"
IsFile(f, p) == p \in DOMAIN f /\ f[p].kind = "file"

Put(f, p, node) == [q \in DOMAIN f \cup {p} |-> IF q = p THEN node ELSE f[q]]

\* the result of a filesystem call: the new filesystem, the paths it created
\* or wrote, and the io::Error (cause "" on success)
IoOk(f, w) == [ok |-> TRUE, fs |-> f, wrote |-> w, cause |-> ""]
IoFail(f, w, cause) == [ok |-> FALSE, fs |-> f, wrote |-> w, cause |-> cause]

\* fs::create_dir_all on a Unix host: every component of the path is walked,
\* so a directory named before a ".." is created too; a component that is a
\* file fails the call, and what was created before it stays
RECURSIVE MkdirWalk(_, _, _, _)
MkdirWalk(f, cur, comps, w) ==
    IF comps = <<>> THEN IoOk(f, w)
    ELSE LET c == Head(comps)
             nxt == Append(cur, c)
         IN  IF c = ParentDir THEN MkdirWalk(f, Parent(cur), Tail(comps), w)
             ELSE IF IsFile(f, nxt)
                  THEN IoFail(f, w, IF Tail(comps) = <<>> THEN "AlreadyExists"
                                                         ELSE "NotADirectory")
             ELSE IF IsDir(f, nxt) THEN MkdirWalk(f, nxt, Tail(comps), w)
             ELSE MkdirWalk(Put(f, nxt, DirNode), nxt, Tail(comps), w \cup {nxt})

\* fs::create_dir_all(path): creates the directory and all missing ancestors.
\* A Windows host resolves ".." in the path text before it reaches the
\* filesystem; a Unix host walks the components.  `fault` is a failure of the
\* environment (permissions, a full disk), met before anything was created.
create_dir_all(f, path, plat, fault) ==
    IF fault THEN IoFail(f, {}, "PermissionDenied")
    ELSE IF plat = "windows" THEN MkdirWalk(f, <<>>, Resolve(path), {})
    ELSE MkdirWalk(f, <<>>, path, {})

\* can the host walk to the last component of the path
RECURSIVE Walkable(_, _)
Walkable(f, p) ==
    \/ Len(p) <= 1
    \/ /\ Walkable(f, Parent(p))
       /\ p[Len(p) - 1] = ParentDir \/ IsDir(f, Resolve(Parent(p)))

\* mutant: an existing file is opened without truncating it
File_create_keep(f, path, plat, fault) ==
    LET r == Resolve(path) IN
    IF fault THEN IoFail(f, {}, "PermissionDenied")
    ELSE IF path = <<>> \/ path[Len(path)] = ParentDir \/ IsDir(f, r)
         THEN IoFail(f, {}, "IsADirectory")
    ELSE IF ~IsDir(f, Parent(r)) \/ (plat = "unix" /\ ~Walkable(f, path))
         THEN IoFail(f, {}, "NotFound")
    ELSE IF IsFile(f, r) THEN IoOk(f, {r})
    ELSE IoOk(Put(f, r, FileNode(Truncated)), {r})

\* fs::File::create(path): creates the file or truncates an existing one
File_create(f, path, plat, fault) ==
    LET r == Resolve(path) IN
    IF fault THEN IoFail(f, {}, "PermissionDenied")
    ELSE IF path = <<>> \/ path[Len(path)] = ParentDir \/ IsDir(f, r)
         THEN IoFail(f, {}, "IsADirectory")
    ELSE IF ~IsDir(f, Parent(r)) \/ (plat = "unix" /\ ~Walkable(f, path))
         THEN IoFail(f, {}, "NotFound")
    ELSE IoOk(Put(f, r, FileNode(Truncated)), {r})

\* std::io::copy(&mut file, &mut outfile) into the file File_create opened at
\* r: the bytes are added to what the open left in the file (nothing, after
\* the truncation); on a failure the file keeps what it held so far
io_copy(f, r, data, fault) ==
    IF fault THEN IoFail(f, {}, "WriteFailed")
    ELSE IoOk(Put(f, r, FileNode(f[r].data + data)), {r})

\* ------------------------------------------------------------ zip crate
\* ZipFile::enclosed_name: None for an absolute path and for a path whose
\* ".." components step above its start; otherwise the path as stored
RECURSIVE DepthOk(_, _)
DepthOk(comps, depth) ==
    IF comps = <<>> THEN TRUE
    ELSE LET c == Head(comps) IN
         IF c = RootDir THEN FALSE
         ELSE IF c = ParentDir THEN depth > 0 /\ DepthOk(Tail(comps), depth - 1)
         ELSE DepthOk(Tail(comps), depth + 1)

\* mutant: the path is taken as stored, without the containment check
enclosed_name_unchecked(entry) == [some |-> TRUE, path |-> entry.path]

enclosed_name(entry) ==
    IF DepthOk(entry.path, 0) THEN [some |-> TRUE, path |-> entry.path]
    ELSE [some |-> FALSE, path |-> <<>>]

\* --------------------------------------------- the body of both loops
\* What the loop does with an entry that was not skipped (core.rs 40-73 and
\* 108-131): a directory entry creates dest and its ancestors; a file entry
\* creates the ancestors of dest, creates/truncates dest and copies the bytes.
\* `fault` names the call the environment fails: "none", "mkdir", "create" or
\* "copy".  `at` is the path the [ERROR] line prints.
WithAt(r, at) ==
    [ok |-> r.ok, fs |-> r.fs, wrote |-> r.wrote, cause |-> r.cause, at |-> at]

Then(first, second) ==
    [ok |-> second.ok, fs |-> second.fs, wrote |-> first.wrote \cup second.wrote,
     cause |-> second.cause, at |-> second.at]

WriteFile(f, dest, entry, plat, fault) ==
    LET c == File_create(f, dest, plat, fault = "create") IN
    IF ~c.ok THEN WithAt(c, dest)
    ELSE Then(c, WithAt(io_copy(c.fs, Resolve(dest), entry.data, fault = "copy"), dest))

ExtractEntry(f, dest, entry, plat, fault) ==
    IF entry.isDir
    THEN WithAt(create_dir_all(f, dest, plat, fault = "mkdir"), dest)
    ELSE IF Len(dest) > 0
         THEN LET m == create_dir_all(f, Parent(dest), plat, fault = "mkdir") IN
              IF ~m.ok THEN WithAt(m, Parent(dest))
              ELSE Then(m, WriteFile(m.fs, dest, entry, plat, fault))
         ELSE WriteFile(f, dest, entry, plat, fault)

\* ------------------------------------------------------------- archives
\* the internal paths of the entries the archives are drawn from
EntryPaths ==
    { <<"UE4SS">>,
      <<"UE4SS", "a">>,
      <<"ue4ss", "a">>,
      <<"UE4SS", "a", "b">>,
      <<"a", "b">>,
      <<"UE4SS", "a", "..", "b">>,
      <<"UE4SS", "..", "x">>,
      <<"UE4SS", "..", "..", "x">>,
      <<"..", "..", "escape.txt">>,
      <<RootDir, "a">> }

\* the entries of an archive: internal path and ZipFile::is_dir
Entries == [path : EntryPaths, isDir : BOOLEAN]

\* an archive: its entries in storage order, each file entry with its bytes
\* (the bytes of entry k are written k, those of another entry differ)
ArchiveOf(a) ==
    [k \in DOMAIN a |->
        [path |-> a[k].path, isDir |-> a[k].isDir,
         data |-> IF a[k].isDir THEN Truncated ELSE k]]

Archives == UNION { { ArchiveOf(a) : a \in [1..n -> Entries] } : n \in 0..MaxEntries }

\* Path::new(win64_dir).join("Mods")
ModsDir(dir) == Join(dir, <<"Mods">>)

\* the filesystems an installation starts from: the game directory exists;
\* the mod installer finds no Mods entry, a Mods directory, or a file named
\* Mods
BaseTree == (<<>> :> DirNode) @@ (TargetDir :> DirNode)

InitTrees(o) ==
    IF o = "ue4ss" THEN { BaseTree }
    ELSE { BaseTree,
           Put(BaseTree, ModsDir(TargetDir), DirNode),
           Put(BaseTree, ModsDir(TargetDir), FileNode(Truncated)) }

Platforms == {"windows", "unix"}

Faults == {"none", "index", "mkdir", "create", "copy"}

\* ---------------------------------------------------------------- results
\* Result<(), Box<dyn Error>>.  `paths` is the set of paths the error value
\* carries: `e.into()` boxes the std::io::Error as it is, and that holds the
\* cause only.
NoResult == [tag |-> "none", kind |-> "", cause |-> "", paths |-> {}]
Ok == [tag |-> "Ok", kind |-> "", cause |-> "", paths |-> {}]
Err(kind, cause) == [tag |-> "Err", kind |-> kind, cause |-> cause, paths |-> {}]

\* ------------------------------------------------------------------ state
VARIABLES
    platform,   \* the host the program was built for
    op,         \* the operation running: "ue4ss", "mod" or "list"
    archive,    \* the entries of the archive, in storage order
    fs,         \* the filesystem
    pc,         \* "start", "loop", "done"
    i,          \* index of the next entry (1-based; the code counts from 0)
    result,     \* the value the operation returned
    errorLog,   \* the paths printed by [ERROR] lines of the running operation
    wrote,      \* history: every path the operation created or wrote
    fs0,        \* history: the filesystem before the first run
    again,      \* history: the installation has been run again
    first,      \* history: the filesystem the first successful run left
    listing     \* the Vec<String> a listing operation returned

vars == <<platform, op, archive, fs, pc, i, result, errorLog, wrote, fs0, again, first, listing>>

\* Result<Vec<String>, Box<dyn Error>> of a listing operation called on `arg`;
\* a String is the sequence of its pieces (names and separators)
NoSnapshot == [taken |-> FALSE, fs |-> <<>>]

NoListing == [call |-> "none", arg |-> <<>>, tag |-> "none", names |-> <<>>]
Listed(call, arg, names) == [call |-> call, arg |-> arg, tag |-> "Ok", names |-> names]
ListErr(call, arg) == [call |-> call, arg |-> arg, tag |-> "Err", names |-> <<>>]

Init ==
    /\ platform \in Platforms
    /\ op \in {"ue4ss", "mod"}
    /\ archive \in Archives
    /\ fs \in InitTrees(op)
    /\ fs0 = fs
    /\ pc = "start"
    /\ i = 1
    /\ result = NoResult
    /\ errorLog = {}
    /\ wrote = {}
    /\ again = FALSE
    /\ first = NoSnapshot
    /\ listing = NoListing

\* the operation returns r
Return(r, f) ==
    /\ result' = r
    /\ pc' = "done"
    /\ first' = IF r = Ok /\ ~first.taken THEN [taken |-> TRUE, fs |-> f] ELSE first

\* install_ue4ss, lines 10-16: download the archive and open it
BeginUe4ss ==
    /\ pc = "start" /\ op = "ue4ss"
    /\ \E outcome \in {"ok", "fetch", "status", "format"} :
         IF outcome = "ok"
         THEN /\ pc' = "loop"
              /\ UNCHANGED <<result, first>>
         ELSE Return(Err(CASE outcome = "fetch" -> "FetchError"
                           [] outcome = "status" -> "HttpStatusError"
                           [] OTHER -> "ArchiveFormatError", outcome), fs)
    /\ i' = 1
    /\ UNCHANGED <<platform, op, archive, fs, errorLog, wrote, fs0, again, listing>>

\* mutant: Mods is made a directory whatever is there, a file of that name
\* is replaced
BeginMod_replace ==
    /\ pc = "start" /\ op = "mod"
    /\ \E fault \in {"none", "mkdir", "read", "format"} :
         LET mods_dir == ModsDir(TargetDir)
             m == IF ~IsDir(fs, mods_dir)
                  THEN IF fault = "mkdir" THEN IoFail(fs, {}, "PermissionDenied")
                       ELSE IoOk(Put(fs, mods_dir, DirNode), {mods_dir})
                  ELSE IoOk(fs, {})
         IN  /\ fs' = m.fs
             /\ wrote' = wrote \cup m.wrote
             /\ IF ~m.ok THEN Return(Err("IoError", m.cause), m.fs)
                ELSE IF fault = "read" THEN Return(Err("IoError", "ReadFailed"), m.fs)
                ELSE IF fault = "format"
                     THEN Return(Err("ArchiveFormatError", "format"), m.fs)
                ELSE /\ pc' = "loop"
                     /\ UNCHANGED <<result, first>>
    /\ i' = 1
    /\ UNCHANGED <<platform, op, archive, errorLog, fs0, again, listing>>

\* install_mod_from_zip, lines 81-94: create Mods when nothing is there, read
\* the archive file and open it
BeginMod ==
    /\ pc = "start" /\ op = "mod"
    /\ \E fault \in {"none", "mkdir", "read", "format"} :
         LET mods_dir == ModsDir(TargetDir)
             m == IF ~Exists(fs, mods_dir)
                  THEN create_dir_all(fs, mods_dir, platform, fault = "mkdir")
                  ELSE IoOk(fs, {})
         IN  /\ fs' = m.fs
             /\ wrote' = wrote \cup m.wrote
             /\ IF ~m.ok THEN Return(Err("IoError", m.cause), m.fs)
                ELSE IF fault = "read" THEN Return(Err("IoError", "ReadFailed"), m.fs)
                ELSE IF fault = "format"
                     THEN Return(Err("ArchiveFormatError", "format"), m.fs)
                ELSE /\ pc' = "loop"
                     /\ UNCHANGED <<result, first>>
    /\ i' = 1
    /\ UNCHANGED <<platform, op, archive, errorLog, fs0, again, listing>>

\* mutant: the first component is stripped whatever it is, nothing is filtered
Ue4ssDest_unfiltered(entry) ==
    LET n == enclosed_name(entry)
        outpath == n.path
        relative_path == Tail(outpath)
    IN  IF ~n.some THEN [skip |-> TRUE, dest |-> <<>>]
        ELSE IF outpath = <<>> THEN [skip |-> TRUE, dest |-> <<>>]
        ELSE IF relative_path = <<>> THEN [skip |-> TRUE, dest |-> <<>>]
        ELSE [skip |-> FALSE, dest |-> Join(TargetDir, relative_path)]

\* mutant: the UE4SS component is filtered on and then kept in the destination
Ue4ssDest_unstripped(entry) ==
    LET n == enclosed_name(entry)
        outpath == n.path
    IN  IF ~n.some THEN [skip |-> TRUE, dest |-> <<>>]
        ELSE IF outpath = <<>> THEN [skip |-> TRUE, dest |-> <<>>]
        ELSE IF Lower(Head(outpath)) # "ue4ss" THEN [skip |-> TRUE, dest |-> <<>>]
        ELSE IF Tail(outpath) = <<>> THEN [skip |-> TRUE, dest |-> <<>>]
        ELSE [skip |-> FALSE, dest |-> Join(TargetDir, outpath)]

\* install_ue4ss(target_dir), lines 20-39: where the entry goes, or that it
\* is skipped
Ue4ssDestIn(target_dir, entry) ==
    LET n == enclosed_name(entry)
        outpath == n.path
        relative_path == Tail(outpath)
    IN  IF ~n.some THEN [skip |-> TRUE, dest |-> <<>>]
        ELSE IF outpath = <<>> THEN [skip |-> TRUE, dest |-> <<>>]
        ELSE IF Lower(Head(outpath)) # "ue4ss" THEN [skip |-> TRUE, dest |-> <<>>]
        ELSE IF relative_path = <<>> THEN [skip |-> TRUE, dest |-> <<>>]
        ELSE [skip |-> FALSE, dest |-> Join(target_dir, relative_path)]

\* the same for the run on TargetDir
Ue4ssDest(entry) == Ue4ssDestIn(TargetDir, entry)

\* mutant: the first component is stripped, as the loader installer does
ModDest_stripped(entry) ==
    LET n == enclosed_name(entry) IN
    IF ~n.some THEN [skip |-> TRUE, dest |-> <<>>]
    ELSE [skip |-> FALSE, dest |-> Join(ModsDir(TargetDir), Tail(n.path))]

\* install_mod_from_zip(zip_path, win64_dir), lines 100-107
ModDestIn(win64_dir, entry) ==
    LET n == enclosed_name(entry) IN
    IF ~n.some THEN [skip |-> TRUE, dest |-> <<>>]
    ELSE [skip |-> FALSE, dest |-> Join(ModsDir(win64_dir), n.path)]

\* the same for the run on TargetDir
ModDest(entry) == ModDestIn(TargetDir, entry)

\* mutant: a failed entry is logged and the loop goes on to the next one
LoopBody_continue(d, fault) ==
    IF fault = "index"
    THEN /\ Return(Err("ArchiveFormatError", "format"), fs)
         /\ UNCHANGED <<fs, i, errorLog, wrote>>
    ELSE IF d.skip
    THEN /\ i' = i + 1
         /\ UNCHANGED <<fs, pc, result, errorLog, wrote, first>>
    ELSE LET r == ExtractEntry(fs, d.dest, archive[i], platform, fault) IN
         /\ fs' = r.fs
         /\ wrote' = wrote \cup r.wrote
         /\ i' = i + 1
         /\ errorLog' = IF r.ok THEN errorLog ELSE errorLog \cup {r.at}
         /\ UNCHANGED <<pc, result, first>>

\* one iteration of either loop on entry i
LoopBody(d, fault) ==
    IF fault = "index"
    THEN /\ Return(Err("ArchiveFormatError", "format"), fs)
         /\ UNCHANGED <<fs, i, errorLog, wrote>>
    ELSE IF d.skip
    THEN /\ i' = i + 1
         /\ UNCHANGED <<fs, pc, result, errorLog, wrote, first>>
    ELSE LET r == ExtractEntry(fs, d.dest, archive[i], platform, fault) IN
         /\ fs' = r.fs
         /\ wrote' = wrote \cup r.wrote
         /\ IF r.ok
            THEN /\ i' = i + 1
                 /\ UNCHANGED <<pc, result, errorLog, first>>
            ELSE /\ errorLog' = errorLog \cup {r.at}
                 /\ Return(Err("IoError", r.cause), r.fs)
                 /\ UNCHANGED i

\* install_ue4ss, lines 18-74: one iteration
Ue4ssStep ==
    /\ pc = "loop" /\ op = "ue4ss" /\ i <= Len(archive)
    /\ \E fault \in Faults : LoopBody(Ue4ssDest(archive[i]), fault)
    /\ UNCHANGED <<platform, op, archive, fs0, again, listing>>

\* install_mod_from_zip, lines 95-132: one iteration
ModStep ==
    /\ pc = "loop" /\ op = "mod" /\ i <= Len(archive)
    /\ \E fault \in Faults : LoopBody(ModDest(archive[i]), fault)
    /\ UNCHANGED <<platform, op, archive, fs0, again, listing>>

\* the loop is over: Ok(()) (lines 75-76 and 133-134)
Finish ==
    /\ pc = "loop" /\ i > Len(archive)
    /\ Return(Ok, fs)
    /\ UNCHANGED <<platform, op, archive, fs, i, errorLog, wrote, fs0, again, listing>>

\* the caller installs the same mod archive again after it succeeded
Rerun ==
    /\ pc = "done" /\ op = "mod" /\ result = Ok
    /\ pc' = "start"
    /\ i' = 1
    /\ result' = NoResult
    /\ errorLog' = {}
    /\ again' = TRUE
    /\ UNCHANGED <<platform, op, archive, fs, wrote, fs0, first, listing>>

Next ==
    \/ BeginUe4ss
    \/ BeginMod
    \/ Ue4ssStep
    \/ ModStep
    \/ Finish
    \/ Rerun

Spec == Init /\ [][Next]_vars

\* ------------------------------------------------------------- listings
\* the immediate children of a directory
Children(f, p) == { q \in DOMAIN f : Len(q) = Len(p) + 1 /\ IsPrefix(p, q) }

\* everything below a path, the path included
Subtree(f, p) == { q \in DOMAIN f : IsPrefix(p, q) }

\* the orders in which a set can be enumerated
Orders(S) ==
    { s \in [1..Cardinality(S) -> S] : \A a, b \in DOMAIN s : s[a] = s[b] => a = b }

\* OsStr::to_str: None for a name that is not valid Unicode
to_str(name) == [some |-> name # BadName, str |-> <<name>>]

\* MAIN_SEPARATOR of the host
Separator(plat) == IF plat = "windows" THEN "\\" ELSE "/"

\* Path::display().to_string(): the components joined by the host's
\* separator, a name that is not valid Unicode printed lossily
RECURSIVE display(_, _)
display(p, plat) ==
    IF p = <<>> THEN <<>>
    ELSE LET c == IF p[Len(p)] = BadName THEN Replacement ELSE p[Len(p)]
         IN  IF Len(p) = 1 THEN <<c>>
             ELSE display(Parent(p), plat) \o <<Separator(plat), c>>

\* list_installed_mods, lines 142-150: the loop over the entries read_dir
\* yields, in the order it yields them
RECURSIVE ModNames(_, _)
ModNames(f, entries) ==
    IF entries = <<>> THEN <<>>
    ELSE LET path == Head(entries)
             name == to_str(path[Len(path)])
         IN  IF IsDir(f, path) /\ name.some
             THEN <<name.str>> \o ModNames(f, Tail(entries))
             ELSE ModNames(f, Tail(entries))

\* list_all_files_and_dirs, lines 162-171: the loop over the entries WalkDir
\* yields
RECURSIVE ScanNames(_, _, _, _)
ScanNames(f, root, entries, plat) ==
    IF entries = <<>> THEN <<>>
    ELSE LET path == Head(entries)
             rel_path == SubSeq(path, Len(root) + 1, Len(path))
         IN  IF IsDir(f, path) /\ rel_path # <<>>
             THEN <<display(rel_path, plat)>> \o ScanNames(f, root, Tail(entries), plat)
             ELSE ScanNames(f, root, Tail(entries), plat)

\* WalkDir::new(root) yields the root, then every entry below it, depth
\* first: an entry comes after its parent, and the entries below a directory
\* come together; the order inside a directory is the host's
WalkOrders(f, root) ==
    { s \in Orders(Subtree(f, root)) :
        /\ s[1] = root
        /\ \A a, b, c \in DOMAIN s :
             (a < b /\ b < c /\ IsPrefix(s[a], s[c])) => IsPrefix(s[a], s[b])
        /\ \A a, c \in DOMAIN s : (IsPrefix(s[a], s[c]) /\ s[a] # s[c]) => a < c }

\* the filesystems the listings are run on: under the game directory, any
\* well-formed choice of these entries
ListPaths ==
    { ModsDir(TargetDir),
      ModsDir(TargetDir) \o <<"a">>,
      ModsDir(TargetDir) \o <<"a", "b">>,
      ModsDir(TargetDir) \o <<"c">>,
      ModsDir(TargetDir) \o <<BadName>> }

TreeOf(kinds) ==
    [p \in {<<>>, TargetDir} \cup { q \in ListPaths : kinds[q] # "absent" } |->
        IF p \in ListPaths /\ kinds[p] = "file" THEN FileNode(Truncated) ELSE DirNode]

ListTrees ==
    { TreeOf(kinds) : kinds \in
        { k \in [ListPaths -> {"absent", "dir", "file"}] :
            \A q \in ListPaths :
              (k[q] # "absent" /\ Parent(q) \in ListPaths) => k[Parent(q)] = "dir" } }

\* the directories the listings are called with
ListArgs == {TargetDir, ModsDir(TargetDir), Nowhere}

InitList ==
    /\ platform \in Platforms
    /\ op = "list"
    /\ archive = <<>>
    /\ fs \in ListTrees
    /\ fs0 = fs
    /\ pc = "start"
    /\ i = 1
    /\ result = NoResult
    /\ errorLog = {}
    /\ wrote = {}
    /\ again = FALSE
    /\ first = NoSnapshot
    /\ listing = NoListing

\* list_installed_mods(win64_dir), lines 138-153
list_installed_mods ==
    /\ op = "list" /\ pc = "start"
    /\ \E win64_dir \in ListArgs, fault \in BOOLEAN :
         LET mods_path == ModsDir(win64_dir) IN
         IF Exists(fs, mods_path) /\ IsDir(fs, mods_path)
         THEN IF fault THEN listing' = ListErr("mods", win64_dir)
              ELSE \E entries \in Orders(Children(fs, mods_path)) :
                     listing' = Listed("mods", win64_dir, ModNames(fs, entries))
         ELSE listing' = Listed("mods", win64_dir, <<>>)
    /\ pc' = "done"
    /\ UNCHANGED <<platform, op, archive, fs, i, result, errorLog, wrote, fs0, again, first>>

\* list_all_files_and_dirs(root), lines 156-173
list_all_files_and_dirs ==
    /\ op = "list" /\ pc = "start"
    /\ \E root \in ListArgs, fault \in BOOLEAN :
         IF ~Exists(fs, root) THEN listing' = Listed("scan", root, <<>>)
         ELSE IF fault THEN listing' = ListErr("scan", root)
         ELSE \E entries \in WalkOrders(fs, root) :
                listing' = Listed("scan", root, ScanNames(fs, root, entries, platform))
    /\ pc' = "done"
    /\ UNCHANGED <<platform, op, archive, fs, i, result, errorLog, wrote, fs0, again, first>>

NextList ==
    \/ list_installed_mods
    \/ list_all_files_and_dirs

SpecList == InitList /\ [][NextList]_vars

\* ------------------------------------------ two installations at once
\* Two runs of the program install at the same time, each on its own target:
\* process 1 on TargetDir, process 2 on OtherDir, a sibling of it.  In this
\* specification op, archive, pc, i, result and wrote hold one value for each
\* process; the filesystem is the one thing the two share.  A process takes
\* one filesystem call of its operation at a time: pc is "start", "entry"
\* (before the create_dir_all of entry i), "create" (before File::create),
\* "copy" (before io::copy) or "done".  The environment fails no call here;
\* a call fails only for what it finds on disk.
MaxPairEntries == 2

OtherDir == <<"other">>

Procs == {1, 2}

Peer(p) == 3 - p

TargetOf(p) == IF p = 1 THEN TargetDir ELSE OtherDir

\* the internal paths the two archives are drawn from
PairEntryPaths ==
    { <<"UE4SS", "a">>,
      <<"a">>,
      <<"UE4SS", "..", "other", "Mods", "a">> }

PairEntries == [path : PairEntryPaths, isDir : BOOLEAN]

\* the archive of process p: the bytes of its entry k are written 10 * p + k,
\* so that no two entries of the two archives hold the same bytes
PairArchiveOf(p, a) ==
    [k \in DOMAIN a |->
        [path |-> a[k].path, isDir |-> a[k].isDir,
         data |-> IF a[k].isDir THEN Truncated ELSE 10 * p + k]]

PairArchives(p) ==
    UNION { { PairArchiveOf(p, a) : a \in [1..n -> PairEntries] } :
              n \in 0..MaxPairEntries }

\* both target directories exist
PairTree == Put(BaseTree, OtherDir, DirNode)

InitPair ==
    /\ platform \in Platforms
    /\ op \in [Procs -> {"ue4ss", "mod"}]
    /\ \E a1 \in PairArchives(1), a2 \in PairArchives(2) : archive = <<a1, a2>>
    /\ fs = PairTree
    /\ fs0 = fs
    /\ pc = [p \in Procs |-> "start"]
    /\ i = [p \in Procs |-> 1]
    /\ result = [p \in Procs |-> NoResult]
    /\ errorLog = {}
    /\ wrote = [p \in Procs |-> {}]
    /\ again = FALSE
    /\ first = NoSnapshot
    /\ listing = NoListing

\* where entry i of process p goes
PairDest(p) ==
    IF op[p] = "mod" THEN ModDestIn(TargetOf(p), archive[p][i[p]])
    ELSE Ue4ssDestIn(TargetOf(p), archive[p][i[p]])

\* process p has made the filesystem call that gave r: on success it goes on
\* to `to` with entry k, on a failure it returns the error
AfterCall(p, r, to, k) ==
    /\ fs' = r.fs
    /\ wrote' = [wrote EXCEPT ![p] = @ \cup r.wrote]
    /\ IF r.ok
       THEN /\ pc' = [pc EXCEPT ![p] = to]
            /\ i' = [i EXCEPT ![p] = k]
            /\ UNCHANGED result
       ELSE /\ pc' = [pc EXCEPT ![p] = "done"]
            /\ result' = [result EXCEPT ![p] = Err("IoError", r.cause)]
            /\ UNCHANGED i
    /\ UNCHANGED <<platform, op, archive, errorLog, fs0, again, first, listing>>

\* lines 10-16 (the download succeeds) and lines 81-94 (Mods is created when
\* nothing is there, the archive is read)
PairBegin(p) ==
    /\ pc[p] = "start"
    /\ LET mods_dir == ModsDir(TargetOf(p)) IN
       AfterCall(p, IF op[p] = "mod" /\ ~Exists(fs, mods_dir)
                    THEN create_dir_all(fs, mods_dir, platform, FALSE)
                    ELSE IoOk(fs, {}),
                 "entry", 1)

\* lines 20-57 and 100-119: the entry is skipped, or its directory (for a
\* file entry the parent directory) is created
PairMkdir(p) ==
    /\ pc[p] = "entry" /\ i[p] <= Len(archive[p])
    /\ LET d == PairDest(p) IN
       IF d.skip THEN AfterCall(p, IoOk(fs, {}), "entry", i[p] + 1)
       ELSE IF archive[p][i[p]].isDir
            THEN AfterCall(p, create_dir_all(fs, d.dest, platform, FALSE),
                           "entry", i[p] + 1)
       ELSE IF Len(d.dest) > 0
            THEN AfterCall(p, create_dir_all(fs, Parent(d.dest), platform, FALSE),
                           "create", i[p])
       ELSE AfterCall(p, IoOk(fs, {}), "create", i[p])

\* lines 58 and 120: fs::File::create(&dest_path)
PairCreate(p) ==
    /\ pc[p] = "create"
    /\ AfterCall(p, File_create(fs, PairDest(p).dest, platform, FALSE), "copy", i[p])

\* lines 60 and 127: std::io::copy(&mut file, &mut outfile)
PairCopy(p) ==
    /\ pc[p] = "copy"
    /\ AfterCall(p, io_copy(fs, Resolve(PairDest(p).dest), archive[p][i[p]].data, FALSE),
                 "entry", i[p] + 1)

\* lines 75-76 and 133-134: Ok(())
PairFinish(p) ==
    /\ pc[p] = "entry" /\ i[p] > Len(archive[p])
    /\ pc' = [pc EXCEPT ![p] = "done"]
    /\ result' = [result EXCEPT ![p] = Ok]
    /\ UNCHANGED <<platform, op, archive, fs, i, errorLog, wrote, fs0, again, first, listing>>

NextPair ==
    \E p \in Procs :
      \/ PairBegin(p)
      \/ PairMkdir(p)
      \/ PairCreate(p)
      \/ PairCopy(p)
      \/ PairFinish(p)

SpecPair == InitPair /\ [][NextPair]_vars

\* An operation run alone on the filesystem f, no other operation at work:
\* the loop of lines 18-74 and 95-132 over the entries of `arch`, to its end
\* or to the first call that fails
RECURSIVE RunLoop(_, _, _, _)
RunLoop(f, o, dir, arch) ==
    IF arch = <<>> THEN f
    ELSE LET e == Head(arch)
             d == IF o = "mod" THEN ModDestIn(dir, e) ELSE Ue4ssDestIn(dir, e)
         IN  IF d.skip THEN RunLoop(f, o, dir, Tail(arch))
             ELSE LET r == ExtractEntry(f, d.dest, e, platform, "none") IN
                  IF r.ok THEN RunLoop(r.fs, o, dir, Tail(arch)) ELSE r.fs

\* the whole operation of process p run alone on f: what comes before the
\* loop, then the loop
RunAlone(f, p) ==
    LET mods_dir == ModsDir(TargetOf(p))
        m == IF op[p] = "mod" /\ ~Exists(f, mods_dir)
             THEN create_dir_all(f, mods_dir, platform, FALSE)
             ELSE IoOk(f, {})
    IN  IF m.ok THEN RunLoop(m.fs, op[p], TargetOf(p), archive[p]) ELSE m.fs

\* ------------------------------------------------------ claims: helpers
\* the places the host reaches while it walks a path
ResolvedPrefixes(p) == { Resolve(SubSeq(p, 1, n)) : n \in 0..Len(p) }

Indices == 1..Len(archive)

\* the archive reader accepts the path: not absolute, never above its start
Accepted(e) == DepthOk(e.path, 0)

FirstIsUe4ss(e) == e.path # <<>> /\ Lower(Head(e.path)) = "ue4ss"

\* what the specification says of the two installers: where an entry goes
WantModDest(e) == Resolve(Join(ModsDir(TargetDir), e.path))
WantUe4ssDest(e) == Resolve(Join(TargetDir, Tail(e.path)))

\* the bytes of the last of the entries `same`, in archive order
LastData(same) ==
    LET last == CHOOSE k \in same : \A j \in same : j <= k
    IN  archive[last].data

Succeeded == pc = "done" /\ result = Ok

\* C1: install_mod_from_zip never creates or writes outside targetDir/Mods:
\* every path written lies in targetDir/Mods, what lies elsewhere is as it
\* was, and an entry whose path resolves outside targetDir/Mods is skipped
\* (once the loop has passed it, nothing is at the place it resolves to).
C1_ModStaysInMods ==
    op = "mod" =>
      /\ \A p \in wrote : IsPrefix(ModsDir(TargetDir), p)
      /\ \A p \in DOMAIN fs :
           ~IsPrefix(ModsDir(TargetDir), p) => p \in DOMAIN fs0 /\ fs[p] = fs0[p]
      /\ \A k \in 1..(i - 1) :
           ~IsPrefix(ModsDir(TargetDir), WantModDest(archive[k]))
             => ~Exists(fs, WantModDest(archive[k]))

C1_Witness ==
    /\ op = "mod" /\ Succeeded
    /\ Len(archive) = 2
    /\ archive[1].path = <<"..", "..", "escape.txt">>
    /\ ~archive[2].isDir /\ archive[2].path = <<"UE4SS", "a", "..", "b">>
    /\ IsFile(fs, ModsDir(TargetDir) \o <<"UE4SS", "b">>)

\* C2: install_ue4ss never writes outside targetDir
C2_Ue4ssStaysInTarget ==
    op = "ue4ss" => \A p \in wrote : IsPrefix(TargetDir, p)

\* C5: a run of install_mod_from_zip that meets no I/O failure succeeds and
\* leaves every contained entry at targetDir/Mods joined with its path (a
\* file holds the bytes of the last entry written there, in archive order);
\* an unsafe entry is skipped without an error, the entries after it are
\* installed.
C5_ModInstallsVerbatim ==
    op = "mod" =>
      /\ Succeeded =>
           \A k \in Indices :
             LET e == archive[k]
                 d == WantModDest(e)
             IN  Accepted(e) =>
                   IF e.isDir THEN IsDir(fs, d)
                   ELSE /\ IsFile(fs, d)
                        /\ fs[d].data =
                             LastData({ j \in Indices :
                                          /\ Accepted(archive[j]) /\ ~archive[j].isDir
                                          /\ WantModDest(archive[j]) = d })
      /\ (pc = "done" /\ errorLog # {}) => i \in Indices /\ Accepted(archive[i])
      /\ (pc = "loop" /\ result = NoResult) =>
           \A k \in 1..(i - 1) :
             Accepted(archive[k]) => Exists(fs, WantModDest(archive[k]))

C5_Witness ==
    /\ op = "mod" /\ Succeeded
    /\ Len(archive) = 2
    /\ archive[1].path = <<RootDir, "a">>
    /\ archive[2] = [path |-> <<"a", "b">>, isDir |-> FALSE, data |-> 2]
    /\ fs[ModsDir(TargetDir) \o <<"a", "b">>] = FileNode(2)

\* C6: install_mod_from_zip is idempotent: a second successful run of the
\* same archive on the same target leaves exactly the files, directories and
\* contents the first one left.
C6_ModIdempotent ==
    (op = "mod" /\ Succeeded /\ again) => fs = first.fs

C6_Witness ==
    /\ op = "mod" /\ Succeeded /\ again
    /\ \E k \in Indices : ~archive[k].isDir /\ Accepted(archive[k])
    /\ first.fs # fs0

\* install_ue4ss installs the entry: the reader accepts its path, its first
\* component is UE4SS in some letter case, and more components follow
Ue4ssPayload(e) == Accepted(e) /\ FirstIsUe4ss(e) /\ Tail(e.path) # <<>>

AllUe4ss == \A k \in Indices : FirstIsUe4ss(archive[k])

\* no two entries of the archive have the same name
DistinctNames == \A j, k \in Indices : archive[j].path = archive[k].path => j = k

\* C3 as stated: after a successful install_ue4ss of an archive whose entries
\* all start with UE4SS, every directory entry is a directory and every file
\* entry is a file with the entry's bytes at targetDir joined with the path
\* less its first component (stated here for archives without a repeated
\* name).
C3_Original ==
    (op = "ue4ss" /\ Succeeded /\ AllUe4ss /\ DistinctNames) =>
      \A k \in Indices :
        LET e == archive[k]
            d == WantUe4ssDest(e)
        IN  Ue4ssPayload(e) =>
              IF e.isDir THEN IsDir(fs, d) ELSE fs[d] = FileNode(e.data)

\* C3 amended: after a successful install_ue4ss of an archive whose entries
\* all start with UE4SS (any case), every entry the archive reader accepts
\* is, at targetDir joined with its path less the first component, a
\* directory for a directory entry and for a file entry a file with the bytes
\* of the last file entry of the archive that goes to that place; the UE4SS
\* marker is skipped, and nothing is written but these places and the
\* directories on the way to them.
C3_Ue4ssReproduces ==
    (op = "ue4ss" /\ Succeeded /\ AllUe4ss) =>
      /\ \A k \in Indices :
           LET e == archive[k]
               d == WantUe4ssDest(e)
           IN  /\ Tail(e.path) = <<>> => Ue4ssDest(e).skip
               /\ Ue4ssPayload(e) =>
                    IF e.isDir THEN IsDir(fs, d)
                    ELSE /\ IsFile(fs, d)
                         /\ fs[d].data =
                              LastData({ j \in Indices :
                                           /\ Ue4ssPayload(archive[j]) /\ ~archive[j].isDir
                                           /\ WantUe4ssDest(archive[j]) = d })
      /\ \A p \in wrote :
           \E k \in Indices :
             /\ Ue4ssPayload(archive[k])
             /\ p \in ResolvedPrefixes(TargetDir \o Tail(archive[k].path))

C3_Witness ==
    /\ op = "ue4ss" /\ Succeeded /\ AllUe4ss
    /\ Len(archive) = 2
    /\ archive[1] = [path |-> <<"UE4SS", "a">>, isDir |-> FALSE, data |-> 1]
    /\ archive[2] = [path |-> <<"ue4ss", "a">>, isDir |-> FALSE, data |-> 2]
    /\ fs[TargetDir \o <<"a">>] = FileNode(2)

\* C4 as stated: an entry whose first component is not UE4SS and whose path
\* is absent from targetDir at the start is absent from targetDir when
\* install_ue4ss has completed, whatever else the archive holds.
C4_Original ==
    (op = "ue4ss" /\ pc = "done") =>
      \A k \in Indices :
        LET e == archive[k]
            d == Resolve(Join(TargetDir, e.path))
        IN  (e.path # <<>> /\ Head(e.path) # RootDir /\ ~FirstIsUe4ss(e)
               /\ ~Exists(fs0, d))
              => ~Exists(fs, d)

\* C4 amended: install_ue4ss creates or modifies nothing for an entry whose
\* first component is not UE4SS: every path it writes is the destination of
\* an entry that does start with UE4SS, or a directory on the way to one, and
\* the path of the other entry, absent at the start, is absent at the end
\* unless an entry that starts with UE4SS put it there.
C4_NonUe4ssWritesNothing ==
    op = "ue4ss" =>
      LET payload == UNION { ResolvedPrefixes(TargetDir \o Tail(archive[k].path)) :
                               k \in { j \in Indices : Ue4ssPayload(archive[j]) } }
      IN  /\ wrote \subseteq payload
          /\ \A k \in Indices :
               LET d == Resolve(Join(TargetDir, archive[k].path))
               IN  (~FirstIsUe4ss(archive[k]) /\ ~Exists(fs0, d) /\ d \notin payload)
                     => ~Exists(fs, d)
          /\ \A p \in DOMAIN fs0 : p \notin payload => fs[p] = fs0[p]

C4_Witness ==
    /\ op = "ue4ss" /\ Succeeded
    /\ Len(archive) = 2
    /\ archive[1] = [path |-> <<"a", "b">>, isDir |-> FALSE, data |-> 1]
    /\ archive[2] = [path |-> <<"UE4SS", "a">>, isDir |-> TRUE, data |-> 0]
    /\ IsDir(fs, TargetDir \o <<"a">>)
    /\ ~Exists(fs, TargetDir \o <<"a", "b">>)

\* the places entry i of the running operation is written to
CurrentDest ==
    IF i \in Indices
    THEN LET d == IF op = "mod" THEN ModDest(archive[i]) ELSE Ue4ssDest(archive[i])
         IN  IF d.skip THEN {} ELSE {Resolve(d.dest)}
    ELSE {}

LoopFails == pc = "loop" /\ pc' = "done" /\ result'.tag = "Err"

\* C9 as stated: the failure at entry i ends the operation, and every path
\* written before entry i is on disk unchanged.
C9_Original ==
    [][ LoopFails => \A p \in wrote : p \in DOMAIN fs' /\ fs'[p] = fs[p] ]_vars

\* C9 amended: the first directory-creation or file-write failure at entry i
\* ends the operation with an error at once: nothing is processed or written
\* after it, and every path written before entry i is still on disk (nothing
\* is rolled back), unchanged except that the destination file of entry i
\* itself may be left truncated.
C9_FailureAborts ==
    /\ [][ LoopFails =>
             \A p \in wrote :
               /\ p \in DOMAIN fs'
               /\ \/ fs'[p] = fs[p]
                  \/ p \in CurrentDest /\ fs[p].kind = "file"
                       /\ fs'[p] = FileNode(Truncated) ]_vars
    /\ [][ (errorLog' # {} \/ result.tag = "Err") =>
             /\ pc' = "done" /\ result'.tag = "Err"
             /\ (result.tag = "Err" => fs' = fs /\ i' = i) ]_vars

C9_Witness ==
    /\ pc = "done" /\ result.tag = "Err" /\ result.kind = "IoError"
    /\ errorLog # {}
    /\ i = 2
    /\ \E p \in wrote : p \in CurrentDest /\ fs[p] = FileNode(Truncated)

\* C10: the error returned for a filesystem failure carries the offending
\* path (the one the [ERROR] line prints) together with the cause.
C10_ErrorCarriesPath ==
    (pc = "done" /\ result.tag = "Err" /\ result.kind = "IoError") =>
      /\ result.cause # ""
      /\ errorLog \subseteq result.paths

\* the elements of a sequence
Range(s) == { s[k] : k \in DOMAIN s }

NoRepeat(s) == \A a, b \in DOMAIN s : s[a] = s[b] => a = b

\* C7: list_installed_mods returns exactly the names of the immediate
\* subdirectories of targetDir/Mods, one element for each, no file and no
\* deeper directory; with no directory targetDir/Mods the result is the
\* empty list and no error.
C7_ListsExactlySubdirs ==
    listing.call = "mods" =>
      LET mods_path == ModsDir(listing.arg)
          subdirs == { q \in Children(fs, mods_path) : IsDir(fs, q) }
      IN  IF IsDir(fs, mods_path)
          THEN listing.tag = "Ok" =>
                 /\ Range(listing.names) = { display(<<q[Len(q)]>>, platform) : q \in subdirs }
                 /\ Len(listing.names) = Cardinality(subdirs)
          ELSE listing = Listed("mods", listing.arg, <<>>)

\* a path as the claim writes it: the components joined by "/"
Slashed(p) == display(p, "unix")

\* C8: list_all_files_and_dirs on a root that does not exist returns the
\* empty list and no error; on an existing root it returns exactly the
\* root-relative paths ("a", "a/b", "c") of the directories strictly below
\* the root, each once, no file and not the root.
C8_ScanListsDirs ==
    listing.call = "scan" =>
      LET root == listing.arg
          dirs == { q \in Subtree(fs, root) : IsDir(fs, q) /\ q # root }
      IN  IF ~Exists(fs, root) THEN listing = Listed("scan", root, <<>>)
          ELSE listing.tag = "Ok" =>
                 /\ Range(listing.names) =
                      { Slashed(SubSeq(q, Len(root) + 1, Len(q))) : q \in dirs }
                 /\ NoRepeat(listing.names)

\* both installations have returned
BothDone == \A p \in Procs : pc[p] = "done"

\* the filesystem after the two operations run one after the other, p first
OneAfterTheOther(p) == RunAlone(RunAlone(fs0, p), Peer(p))

\* C11: two installations on different target directories never interfere:
\* neither writes a path under the other's target directory, and when both
\* have returned, whatever the interleaving of their directory-creation and
\* file-write steps, the filesystem is the one that running the two one
\* after the other leaves.
C11_NoInterference ==
    /\ \A p \in Procs : \A w \in wrote[p] : ~IsPrefix(TargetOf(Peer(p)), w)
    /\ BothDone => fs \in { OneAfterTheOther(p) : p \in Procs }

\* the operation returns before its loop has begun
FailsBeforeLoop == pc = "start" /\ pc' = "done"

\* C12: a failure before the extraction loop writes no archive entry.  When
\* install_ue4ss returns for a failed fetch, a non-success HTTP status or an
\* invalid archive, the filesystem is as it was when the call began; when
\* install_mod_from_zip returns before its loop (the archive file unreadable
\* or not a valid archive), every path that was there is unchanged and the
\* one path that may be new is the directory targetDir/Mods.
C12_FailureBeforeLoopWritesNothing ==
    [][ FailsBeforeLoop =>
          /\ result'.tag = "Err"
          /\ op = "ue4ss" =>
               /\ result'.kind \in {"FetchError", "HttpStatusError", "ArchiveFormatError"}
               /\ fs' = fs
               /\ wrote' = wrote
          /\ op = "mod" =>
               /\ result'.kind \in {"IoError", "ArchiveFormatError"}
               /\ \A p \in DOMAIN fs : p \in DOMAIN fs' /\ fs'[p] = fs[p]
               /\ \A p \in DOMAIN fs' \ DOMAIN fs :
                    p = ModsDir(TargetDir) /\ fs'[p] = DirNode
               /\ wrote' \ wrote \subseteq {ModsDir(TargetDir)} ]_vars

C12_Witness ==
    /\ op = "mod" /\ pc = "done" /\ ~again
    /\ result = Err("IoError", "ReadFailed")
    /\ ~Exists(fs0, ModsDir(TargetDir))
    /\ fs = Put(fs0, ModsDir(TargetDir), DirNode)

====
